---- MODULE Spec2Model ----
(***************************************************************************)
(* Model of zerver/lib/email_mirror.py: the email gateway address codec,  *)
(* the missed-message token store kept in Redis, and the dispatch of an   *)
(* inbound email (mirror_email_message, process_message).                  *)
(*                                                                         *)
(* Text is a sequence of Unicode code points (Python str), so ord and     *)
(* unichr are the identity on characters and every formatting or parsing  *)
(* step (str(ord(c)).zfill(4), int(digits), split, regex match) is        *)
(* computed on the code points.                                            *)
(***************************************************************************)
EXTENDS Integers, Sequences, FiniteSets, TLC

VARIABLES
    settings,   \* django settings read by the module
    redis,      \* redis_client: key -> hash with its TTL
    create,     \* calls of create_missed_message_address
    mail,       \* inbound emails and the position of the call handling each
    queue,      \* the "email_mirror" queue fed by queue_json_publish
    sent,       \* per email, the messages handed to zerver.lib.actions.internal_send_*
    reports,    \* per email, the errors given to log_and_report
    codec,      \* a call of encode_email_address_helper / decode_email_address
    call        \* a call of one of the functions that read a message or a text

vars == <<settings, redis, create, mail, queue, sent, reports, codec, call>>

----------------------------------------------------------------------------
(* Bounds of the model *)

\* number of distinct values generate_random_token can draw
NumTokens == 2
\* number of calls of create_missed_message_address
NumCreateCalls == 2
\* number of inbound emails
NumEmails == 2
\* number of concurrent consumers racing on one fresh address
NumConsumers == 3
\* longest stream name / token fed to the codec
MaxNameLen == 2
MaxTokenLen == 1
\* longest text fed to filter_footer
MaxTextLen == 6

----------------------------------------------------------------------------
(* Text helpers *)

None == <<>>
Some(v) == <<v>>

StartsWithAt(s, i, sub) ==
    /\ i + Len(sub) - 1 <= Len(s)
    /\ SubSeq(s, i, i + Len(sub) - 1) = sub

\* str.find: least index >= i at which sub occurs in s, 0 when there is none
LeastOf(hits) == IF hits = {} THEN 0 ELSE CHOOSE j \in hits : \A k \in hits : j <= k
Find(s, sub, i) == LeastOf({ j \in i..(Len(s) - Len(sub) + 1) : StartsWithAt(s, j, sub) })

\* str.split(sep): the pieces between every occurrence of sep
RECURSIVE Split(_, _)
Split(s, sep) ==
    LET j == Find(s, sep, 1) IN
    IF j = 0 THEN <<s>>
    ELSE <<SubSeq(s, 1, j - 1)>> \o Split(SubSeq(s, j + Len(sep), Len(s)), sep)

Contains(s, c) == \E i \in 1..Len(s) : s[i] = c

IsDigit(c) == c \in 48..57

\* \w of a Python 3 str pattern: alphanumeric (Unicode) or underscore
NonAsciiAlnum == {233}
IsWordChar(c) ==
    \/ c \in 48..57
    \/ c \in 65..90
    \/ c \in 97..122
    \/ c = 95
    \/ c \in NonAsciiAlnum

\* str(n) for n >= 0: the decimal digits
RECURSIVE Str(_)
Str(n) == IF n < 10 THEN <<48 + n>> ELSE Str(n \div 10) \o <<48 + (n % 10)>>

\* s.zfill(width)
RECURSIVE Zfill(_, _)
Zfill(s, width) == IF Len(s) >= width THEN s ELSE Zfill(<<48>> \o s, width)

\* int(digits)
RECURSIVE Int_(_)
Int_(d) ==
    IF Len(d) = 0 THEN 0
    ELSE 10 * Int_(SubSeq(d, 1, Len(d) - 1)) + (d[Len(d)] - 48)

\* str.lower on the code points the model uses
Lower(s) == [i \in 1..Len(s) |-> IF s[i] \in 65..90 THEN s[i] + 32 ELSE s[i]]

\* all sequences over S of length <= n
RECURSIVE SeqsUpTo(_, _)
SeqsUpTo(S, n) ==
    IF n = 0 THEN {<<>>}
    ELSE LET shorter == SeqsUpTo(S, n - 1) IN
         shorter \cup {Append(s, c) : s \in shorter, c \in S}

----------------------------------------------------------------------------
(* Settings *)

\* settings.EMAIL_GATEWAY_PATTERN = "%s@example.com"
EMAIL_GATEWAY_PATTERN == <<37, 115, 64, 101, 120, 97, 109, 112, 108, 101, 46, 99, 111, 109>>

\* the "%s" placeholder
PLACEHOLDER == <<37, 115>>

\* A configured settings.EMAIL_GATEWAY_EXTRA_PATTERN_HACK, the regular
\* expression r'@(example\.com|zulip\.net)', given by the strings it matches.
EXTRA_PATTERN_HACK ==
    { <<64, 101, 120, 97, 109, 112, 108, 101, 46, 99, 111, 109>>,
      <<64, 122, 117, 108, 105, 112, 46, 110, 101, 116>> }

\* the hack unset (None)
NO_EXTRA_PATTERN == {}

----------------------------------------------------------------------------
(* Address codec *)

\* EMAIL_GATEWAY_PATTERN.split('%s')
TemplateParts == Split(EMAIL_GATEWAY_PATTERN, PLACEHOLDER)

\* what the last pattern part matches: the escaped literal, or the extra
\* pattern when it is configured (pattern_parts[-1] = EXTRA_PATTERN_HACK)
LastPartMatches ==
    IF settings.EMAIL_GATEWAY_EXTRA_PATTERN_HACK # {}
    THEN settings.EMAIL_GATEWAY_EXTRA_PATTERN_HACK
    ELSE {TemplateParts[2]}

\* The regular expression parts[1] (.*?) parts[2] at position i of the
\* address: the end of the shortest capture, made of characters other than
\* newline, after which one of `tails` matches; -1 when there is none.
\* re.match anchors the start only.
RECURSIVE LazyCaptureEnd(_, _, _)
LazyCaptureEnd(address, i, tails) ==
    IF \E suf \in tails : StartsWithAt(address, i, suf) THEN i - 1
    ELSE IF i > Len(address) \/ address[i] = 10 THEN -1
    ELSE LazyCaptureEnd(address, i + 1, tails)

\* match.group(1) of a match whose capture ends at `end`, or the error
MatchGroup(address, end) ==
    IF end = -1
    THEN [exc |-> "ZulipEmailUnrecognizedAddressError", msg_string |-> <<>>]
    ELSE [exc |-> "", msg_string |-> SubSeq(address, Len(TemplateParts[1]) + 1, end)]

get_email_gateway_message_string_from_address(address) ==
    MatchGroup(address,
               IF StartsWithAt(address, 1, TemplateParts[1])
               THEN LazyCaptureEnd(address, Len(TemplateParts[1]) + 1, LastPartMatches)
               ELSE -1)

\* re.sub("%\d{4}", lambda x: unichr(int(x.group(0)[1:])), s)
RECURSIVE UnescapeName(_)
UnescapeName(s) ==
    IF Len(s) = 0 THEN <<>>
    ELSE IF /\ s[1] = 37
            /\ Len(s) >= 5
            /\ \A i \in 2..5 : IsDigit(s[i])
    THEN <<Int_(SubSeq(s, 2, 5))>> \o UnescapeName(SubSeq(s, 6, Len(s)))
    ELSE <<s[1]>> \o UnescapeName(SubSeq(s, 2, Len(s)))

\* re.sub("\W", lambda x: "%" + str(ord(x.group(0))).zfill(4), name)
RECURSIVE EscapeName(_)
EscapeName(name) ==
    IF Len(name) = 0 THEN <<>>
    ELSE (IF IsWordChar(name[1]) THEN <<name[1]>>
          ELSE <<37>> \o Zfill(Str(name[1]), 4))
         \o EscapeName(SubSeq(name, 2, Len(name)))

\* EMAIL_GATEWAY_PATTERN % (s,)
FormatPattern(s) == TemplateParts[1] \o s \o TemplateParts[2]

encode_email_address_helper(name, email_token) ==
    IF EMAIL_GATEWAY_PATTERN = <<>> THEN <<>>
    ELSE FormatPattern(EscapeName(name) \o <<43>> \o email_token)

\* "encoded_stream_name, token = pieces" raises ValueError unless there are
\* exactly two pieces
UnpackPieces(pieces) ==
    IF Len(pieces) # 2
    THEN [exc |-> "ValueError", stream_name |-> <<>>, token |-> <<>>]
    ELSE [exc |-> "", stream_name |-> UnescapeName(pieces[1]), token |-> pieces[2]]

\* the split of msg_string: on '.' when it holds one, else on '+'
SplitMsgString(msg_string) ==
    IF Contains(msg_string, 46)
    THEN Split(msg_string, <<46>>)
    ELSE Split(msg_string, <<43>>)

DecodeMsgString(m) ==
    IF m.exc # ""
    THEN [exc |-> m.exc, stream_name |-> <<>>, token |-> <<>>]
    ELSE UnpackPieces(SplitMsgString(m.msg_string))

decode_email_address(email) ==
    DecodeMsgString(get_email_gateway_message_string_from_address(email))

----------------------------------------------------------------------------
(* Missed-message addresses: the keys and hashes kept in Redis *)

\* generate_random_token(32) draws 32 hexadecimal characters
TOKEN_LENGTH == 32
\* the expiry given to redis expire: 60 * 60 * 24 * 5 seconds
MISSED_MESSAGE_TTL == 432000
\* len('mm') + 32
MM_STRING_LENGTH == 34

\* the values generate_random_token(32) can return in the model: one
\* hexadecimal character ('a', 'b', ...) repeated
RandomTokens == { [i \in 1..TOKEN_LENGTH |-> c] : c \in 97..(96 + NumTokens) }

\* 'missed_message:' + token
missed_message_redis_key(token) ==
    <<109, 105, 115, 115, 101, 100, 95, 109, 101, 115, 115, 97, 103, 101, 58>> \o token

\* 'mm' + token
MMString(token) == <<109, 109>> \o token

RedisKeys == { missed_message_redis_key(t) : t \in RandomTokens }

\* a key that does not exist: no field, no expiry
NoKey ==
    [uses_left |-> None, user_profile_id |-> None, recipient_id |-> None,
     subject |-> None, ttl |-> None]

KeyExists(h) ==
    \/ h.uses_left # None
    \/ h.user_profile_id # None
    \/ h.recipient_id # None
    \/ h.subject # None

\* HSETNX key uses_left value: the reply (1 set, 0 not set) and the hash after
HSetNXReply(h) == IF h.uses_left = None THEN 1 ELSE 0
HSetNX(h, value) == IF h.uses_left = None THEN [h EXCEPT !.uses_left = Some(value)] ELSE h

HMSet_WithUsesLeft(h, data) ==
    [h EXCEPT !.uses_left = Some(1),
              !.user_profile_id = Some(data.user_profile_id),
              !.recipient_id = Some(data.recipient_id),
              !.subject = Some(data.subject)]

\* HMSET key data
HMSet(h, data) ==
    [h EXCEPT !.user_profile_id = Some(data.user_profile_id),
              !.recipient_id = Some(data.recipient_id),
              !.subject = Some(data.subject)]

\* EXPIRE key seconds: no effect on a key that does not exist
Expire(h, seconds) == IF KeyExists(h) THEN [h EXCEPT !.ttl = Some(seconds)] ELSE h

HIncrBy_FromOne(h, n) ==
    [h EXCEPT !.uses_left = Some((IF h.uses_left = None THEN 1 ELSE h.uses_left[1]) + n)]

\* HINCRBY key uses_left n: a missing field counts as 0
HIncrBy(h, n) ==
    [h EXCEPT !.uses_left = Some((IF h.uses_left = None THEN 0 ELSE h.uses_left[1]) + n)]

\* HMGET key user_profile_id recipient_id subject
HMGet(h) == <<h.user_profile_id, h.recipient_id, h.subject>>

is_mm_32_format(msg_string) ==
    /\ Len(msg_string) >= 2
    /\ SubSeq(msg_string, 1, 2) = <<109, 109>>
    /\ Len(msg_string) = MM_STRING_LENGTH

IsMMResult(m) == IF m.exc # "" THEN FALSE ELSE is_mm_32_format(m.msg_string)

\* returns None (false in a condition) on an unrecognized address
is_missed_message_address(address) ==
    IsMMResult(get_email_gateway_message_string_from_address(address))

TokenResult(m) ==
    IF m.exc # ""
    THEN [exc |-> "ZulipEmailForwardError",
          msg |-> "Address not recognized by gateway.", token |-> <<>>]
    ELSE IF ~is_mm_32_format(m.msg_string)
    THEN [exc |-> "ZulipEmailForwardError",
          msg |-> "Could not parse missed message address", token |-> <<>>]
    ELSE [exc |-> "", msg |-> "", token |-> SubSeq(m.msg_string, 3, Len(m.msg_string))]

get_missed_message_token_from_address(address) ==
    TokenResult(get_email_gateway_message_string_from_address(address))

----------------------------------------------------------------------------
(* create_missed_message_address *)

CreateCalls == 1..NumCreateCalls

\* get_personal_recipient(sender_id).id
PersonalRecipientId(sender_id) == 10 + sender_id

\* the (user_profile, message) pair call g is made with: user g about a
\* message of another user, personal for odd g and in a stream for even g,
\* each with a subject of its own
CreateInput(g) ==
    [user_profile_id |-> g,
     message |-> [recipient_type |-> IF g % 2 = 1 THEN "PERSONAL" ELSE "STREAM",
                  recipient_id |-> 20 + g,
                  sender_id |-> g + 1,
                  subject |-> <<115, 48 + g>>]]

\* the data dict built before the loop
CreateData(in) ==
    [user_profile_id |-> in.user_profile_id,
     recipient_id |-> IF in.message.recipient_type = "PERSONAL"
                      THEN PersonalRecipientId(in.message.sender_id)
                      ELSE in.message.recipient_id,
     subject |-> in.message.subject]

CreateIdle == [pc |-> "idle", token |-> None, address |-> None]

\* the hsetnx that decides whether the drawn token is taken
CreateClaimKey(h) == HSetNX(h, 1)

\* One pass of the "while True" loop: draw a token and HSETNX its key. The
\* first pass is the start of the call (data is built before the loop).
CreateHsetnx(g) ==
    /\ create[g].pc \in {"idle", "loop"}
    /\ EMAIL_GATEWAY_PATTERN # <<>>
    /\ \E token \in RandomTokens :
          LET key == missed_message_redis_key(token) IN
          IF HSetNXReply(redis[key]) = 1
          THEN /\ redis' = [redis EXCEPT ![key] = CreateClaimKey(@)]
               /\ create' = [create EXCEPT ![g].pc = "pipeline", ![g].token = Some(token)]
          ELSE /\ redis' = redis
               /\ create' = [create EXCEPT ![g].pc = "loop"]
    /\ UNCHANGED <<settings, mail, queue, sent, reports, codec, call>>

\* the pipeline of hmset and expire
CreateStore(h, data) == Expire(HMSet(h, data), MISSED_MESSAGE_TTL)

\* the hmset + expire pipeline, then the address is returned
CreatePipeline(g) ==
    /\ create[g].pc = "pipeline"
    /\ LET token == create[g].token[1]
           key   == missed_message_redis_key(token)
       IN
       /\ redis' = [redis EXCEPT ![key] = CreateStore(@, CreateData(CreateInput(g)))]
       /\ create' = [create EXCEPT ![g].pc = "done",
                                   ![g].address = Some(FormatPattern(MMString(token)))]
    /\ UNCHANGED <<settings, mail, queue, sent, reports, codec, call>>

----------------------------------------------------------------------------
(* Inbound messages and the body built from them *)

Last(s) == s[Len(s)]

\* str.join
RECURSIVE Join(_, _)
Join(pieces, sep) ==
    IF Len(pieces) = 0 THEN <<>>
    ELSE IF Len(pieces) = 1 THEN pieces[1]
    ELSE pieces[1] \o sep \o Join(Tail(pieces), sep)

IsSpace(c) == c \in {9, 10, 11, 12, 13, 28, 29, 30, 31, 32}

RECURSIVE LStrip(_)
LStrip(s) == IF Len(s) > 0 /\ IsSpace(s[1]) THEN LStrip(Tail(s)) ELSE s

RECURSIVE RStrip(_)
RStrip(s) ==
    IF Len(s) > 0 /\ IsSpace(s[Len(s)]) THEN RStrip(SubSeq(s, 1, Len(s) - 1)) ELSE s

\* str.strip()
Strip(s) == RStrip(LStrip(s))

\* talon quotations.extract_from_plain: the text before the first quoted
\* ('>') line
RECURSIVE UnquotedLines(_)
UnquotedLines(lines) ==
    IF Len(lines) = 0 THEN <<>>
    ELSE IF StartsWithAt(lines[1], 1, <<62>>) THEN <<>>
    ELSE <<lines[1]>> \o UnquotedLines(Tail(lines))

extract_from_plain(text) == Join(UnquotedLines(Split(text, <<10>>)), <<10>>)

\* talon quotations.extract_from_html: the markup before the first
\* "<blockquote"
extract_from_html(html) ==
    LET j == Find(html, <<60, 98, 108, 111, 99, 107, 113, 117, 111, 116, 101>>, 1) IN
    IF j = 0 THEN html ELSE SubSeq(html, 1, j - 1)

\* convert_html_to_markdown: the text with its tags removed
RECURSIVE convert_html_to_markdown(_)
convert_html_to_markdown(html) ==
    IF Len(html) = 0 THEN <<>>
    ELSE IF html[1] = 60 /\ Find(html, <<62>>, 1) # 0
    THEN convert_html_to_markdown(SubSeq(html, Find(html, <<62>>, 1) + 1, Len(html)))
    ELSE <<html[1]>> \o convert_html_to_markdown(Tail(html))

\* the first part, in walk order, of the content type whose charset is set
RECURSIVE get_message_part_by_type(_, _)
get_message_part_by_type(parts, content_type) ==
    IF Len(parts) = 0 THEN None
    ELSE IF parts[1].content_type = content_type /\ parts[1].charset # None
    THEN Some(parts[1].payload)
    ELSE get_message_part_by_type(Tail(parts), content_type)

\* a None or empty part is skipped ("if plaintext_content:")
BodyOf(plaintext_content, html_content) ==
    IF plaintext_content # None /\ plaintext_content[1] # <<>>
    THEN [exc |-> "", msg |-> "", body |-> extract_from_plain(plaintext_content[1])]
    ELSE IF html_content # None /\ html_content[1] # <<>>
    THEN [exc |-> "", msg |-> "",
          body |-> convert_html_to_markdown(extract_from_html(html_content[1]))]
    ELSE [exc |-> "ZulipEmailForwardError",
          msg |-> "Unable to find plaintext or HTML message body", body |-> <<>>]

extract_body(message) ==
    BodyOf(get_message_part_by_type(message.parts, "text/plain"),
           get_message_part_by_type(message.parts, "text/html"))

\* [line for line in lines if line.strip().startswith("--")]
PossibleFooters(lines) ==
    SelectSeq(lines, LAMBDA line : StartsWithAt(Strip(line), 1, <<45, 45>>))

\* text.partition("--")[0]
BeforeDashes(text, j) == IF j = 0 THEN text ELSE SubSeq(text, 1, j - 1)

filter_footer(text) ==
    IF Len(PossibleFooters(Split(text, <<10>>))) # 1 THEN text
    ELSE Strip(BeforeDashes(text, Find(text, <<45, 45>>, 1)))

\* upload_message_image: the URL the uploaded file gets
UploadUrl(filename) == <<47, 117, 115, 101, 114, 95, 117, 112, 108, 111, 97, 100, 115, 47>> \o filename

\* "[%s](%s)" for every immediate child part with a filename and a bytes payload
RECURSIVE AttachmentLinks(_)
AttachmentLinks(parts) ==
    IF Len(parts) = 0 THEN <<>>
    ELSE (IF /\ parts[1].depth = 1
             /\ parts[1].filename # None
             /\ parts[1].filename[1] # <<>>
             /\ ~parts[1].is_multipart
          THEN << <<91>> \o parts[1].filename[1] \o <<93, 40>>
                  \o UploadUrl(parts[1].filename[1]) \o <<41>> >>
          ELSE <<>>)
         \o AttachmentLinks(Tail(parts))

extract_and_upload_attachments(message) ==
    IF ~message.parts[1].is_multipart THEN <<>>
    ELSE Join(AttachmentLinks(message.parts), <<10>>)

RemoveNull(s) == SelectSeq(s, LAMBDA c : c # 0)

NO_EMAIL_BODY == <<40, 78, 111, 32, 101, 109, 97, 105, 108, 32, 98, 111, 100, 121, 41>>

\* "if not body: body = '(No email body)'"
OrPlaceholder(body) ==
    [exc |-> "", msg |-> "", body |-> IF body = <<>> THEN NO_EMAIL_BODY ELSE body]

AssembleBody(extracted, message) ==
    IF extracted.exc # "" THEN extracted
    ELSE OrPlaceholder(Strip(filter_footer(RemoveNull(extracted.body))
                             \o extract_and_upload_attachments(message)))

construct_zulip_body(message) == AssembleBody(extract_body(message), message)

----------------------------------------------------------------------------
(* Streams, recipients and the messages of the model *)

\* Stream rows: "Denmark" with email_token "tok", "Rome" with email_token "tk2"
Streams ==
    { [name |-> <<68, 101, 110, 109, 97, 114, 107>>, email_token |-> <<116, 111, 107>>],
      [name |-> <<82, 111, 109, 101>>, email_token |-> <<116, 107, 50>>] }

\* Recipient.objects.get(id=recipient_id).type
RecipientType(recipient_id) ==
    IF recipient_id < 20 THEN "PERSONAL"
    ELSE IF recipient_id % 2 = 0 THEN "STREAM"
    ELSE "HUDDLE"

valid_stream_TokenOnly(stream_name, token) ==
    \E stream \in Streams : stream.email_token = token

\* Stream.objects.get(email_token=token); stream.name.lower() == stream_name.lower()
valid_stream(stream_name, token) ==
    \E stream \in Streams :
        /\ stream.email_token = token
        /\ Lower(stream.name) = Lower(stream_name)

Validate(temp) ==
    IF temp.exc # "" THEN [exc |-> temp.exc, msg |-> "", token |-> <<>>]
    ELSE IF ~valid_stream(temp.stream_name, temp.token)
    THEN [exc |-> "ZulipEmailForwardError",
          msg |-> "Bad stream token from email recipient", token |-> <<>>]
    ELSE [exc |-> "", msg |-> "", token |-> temp.token]

extract_and_validate(email) == Validate(decode_email_address(email))

\* re.compile(".*?".join(pattern_parts)).match(recipient_email), the parts
\* being those of EMAIL_GATEWAY_PATTERN alone
MatchesGatewayPattern(recipient_email) ==
    /\ StartsWithAt(recipient_email, 1, TemplateParts[1])
    /\ LazyCaptureEnd(recipient_email, Len(TemplateParts[1]) + 1, {TemplateParts[2]}) # -1

\* the values of the first header, in priority order, that is present
FirstPresentHeader(headers) ==
    IF headers.x_gm_original_to # <<>> THEN headers.x_gm_original_to
    ELSE IF headers.delivered_to # <<>> THEN headers.delivered_to
    ELSE headers.to

FirstMatching(matching) ==
    IF matching = <<>>
    THEN [exc |-> "ZulipEmailForwardError", msg |-> "Missing recipient in mirror email",
          to |-> <<>>]
    ELSE [exc |-> "", msg |-> "", to |-> matching[1]]

find_emailgateway_recipient(message) ==
    FirstMatching(SelectSeq(FirstPresentHeader(message.headers), MatchesGatewayPattern))

\* message.get("Subject", "(no subject)"), decoded
Subject(message) ==
    IF message.subject = None
    THEN <<40, 110, 111, 32, 115, 117, 98, 106, 101, 99, 116, 41>>
    ELSE message.subject[1]

\* the limits of send_zulip: topic[:60], content[:2000]
MAX_TOPIC_LENGTH == 60
MAX_CONTENT_LENGTH == 2000
Truncate_OneMore(s, n) == SubSeq(s, 1, IF Len(s) < n + 1 THEN Len(s) ELSE n + 1)
Truncate(s, n) == SubSeq(s, 1, IF Len(s) < n THEN Len(s) ELSE n)

\* a message handed to internal_send_*
NoMessage ==
    [type |-> "", stream |-> <<>>, recipient_id |-> 0, sender |-> 0,
     topic |-> <<>>, content |-> <<>>]

send_zulip(stream_name, topic, content) ==
    [NoMessage EXCEPT !.type = "stream", !.stream = stream_name,
                      !.topic = Truncate(topic, MAX_TOPIC_LENGTH),
                      !.content = Truncate(content, MAX_CONTENT_LENGTH)]

\* addresses of the model
MMAddress(token) == FormatPattern(MMString(token))
MMAddresses == { MMAddress(t) : t \in RandomTokens }
\* "Denmark+tok@example.com"
StreamAddress == encode_email_address_helper(<<68, 101, 110, 109, 97, 114, 107>>, <<116, 111, 107>>)
\* "Denmark+bad@example.com": no stream has this token
BadTokenAddress == encode_email_address_helper(<<68, 101, 110, 109, 97, 114, 107>>, <<98, 97, 100>>)
\* "Denmark@example.com": neither '+' nor '.' in the local part
NoSeparatorAddress == FormatPattern(<<68, 101, 110, 109, 97, 114, 107>>)
\* "a.b.c@example.com": several '.' in the local part
ManyDotsAddress == FormatPattern(<<97, 46, 98, 46, 99>>)
\* "Denmark+tok@zulip.net": not the gateway's domain
ForeignAddress == <<68, 101, 110, 109, 97, 114, 107, 43, 116, 111, 107, 64, 122, 117, 108, 105, 112, 46, 110, 101, 116>>

\* "denmark+tok@example.com": the name of Denmark in another case
OtherCaseAddress == encode_email_address_helper(<<100, 101, 110, 109, 97, 114, 107>>, <<116, 111, 107>>)
\* "Rome+tok@example.com": the token of Denmark under the name of Rome
OtherNameAddress == encode_email_address_helper(<<82, 111, 109, 101>>, <<116, 111, 107>>)
\* "Rome.tk2@example.com": the '.' form of the address of Rome
DotAddress == FormatPattern(<<82, 111, 109, 101, 46, 116, 107, 50>>)

TextPart(content_type, payload) ==
    [content_type |-> content_type, charset |-> Some("utf-8"), payload |-> payload,
     filename |-> None, depth |-> 0, is_multipart |-> FALSE]

NoHeaders == [x_gm_original_to |-> <<>>, delivered_to |-> <<>>, to |-> <<>>]

\* a text/plain email "hi" with a To header naming the address it is sent to
PlainMessage(address) ==
    [headers |-> [NoHeaders EXCEPT !.to = <<address>>],
     subject |-> Some(<<104, 105>>),
     parts |-> <<TextPart("text/plain", <<104, 105>>)>>]

\* an email with neither a text/plain nor a text/html part and no recipient header
BodylessMessage ==
    [headers |-> NoHeaders,
     subject |-> None,
     parts |-> <<[content_type |-> "image/png", charset |-> None, payload |-> <<>>,
                  filename |-> None, depth |-> 0, is_multipart |-> FALSE]>>]

----------------------------------------------------------------------------
(* Inbound emails: mirror_email_message and process_message *)

MailIdle(address, m) ==
    [rcpt_to |-> address, msg |-> m, pc |-> "idle", via |-> "", pre_checked |-> FALSE,
     to |-> None, decrements |-> 0, status |-> "", outcome |-> "", error |-> ""]

MarkUsedPipeline_NoExpire(h) == HIncrBy(h, -1)

\* the pipeline of mark_missed_message_address_as_used: hincrby -1, expire
MarkUsedPipeline(h) == Expire(HIncrBy(h, -1), MISSED_MESSAGE_TTL)

MarkUsedExhausted_NonPositive(new_value) == new_value <= 0

MarkUsedExhausted_BelowMinusOne(new_value) == new_value < -1

\* "if new_value < 0"
MarkUsedExhausted(new_value) == new_value < 0

MarkUsedDelete_Keep(h) == h

\* redis_client.delete(key)
MarkUsedDelete(h) == NoKey

\* the key of a missed-message address
KeyOf(address) ==
    missed_message_redis_key(get_missed_message_token_from_address(address).token)

log_and_report(e, error_message) ==
    reports' = [reports EXCEPT ![e] = Append(@, error_message)]

\* the position after the pipeline of mark_missed_message_address_as_used
AfterMarkUsed(h, exhausted, ok) ==
    IF MarkUsedExhausted(h.uses_left[1]) THEN exhausted ELSE ok

\* mirror_email_message on a missed-message address: the hincrby + expire
\* pipeline of mark_missed_message_address_as_used
MirrorMarkUsed(e) ==
    /\ mail[e].pc = "idle"
    /\ is_missed_message_address(mail[e].rcpt_to)
    /\ redis' = [redis EXCEPT ![KeyOf(mail[e].rcpt_to)] = MarkUsedPipeline(@)]
    /\ mail' = [mail EXCEPT ![e].via = "mirror",
                            ![e].decrements = @ + 1,
                            ![e].pc = AfterMarkUsed(redis'[KeyOf(mail[e].rcpt_to)],
                                                    "m_delete", "m_publish")]
    /\ UNCHANGED <<settings, create, queue, sent, reports, codec, call>>

\* new_value < 0: delete the key, raise; mirror_email_message returns the error status
MirrorDelete(e) ==
    /\ mail[e].pc = "m_delete"
    /\ redis' = [redis EXCEPT ![KeyOf(mail[e].rcpt_to)] = MarkUsedDelete(@)]
    /\ mail' = [mail EXCEPT ![e].pc = "done", ![e].status = "error",
                            ![e].error = "Missed message address has already been used"]
    /\ UNCHANGED <<settings, create, queue, sent, reports, codec, call>>

\* the end of mirror_email_message's "try: extract_and_validate(rcpt_to)":
\* only ZulipEmailForwardError is caught
MirrorValidated(e, v) ==
    mail' = [mail EXCEPT
               ![e].via = "mirror",
               ![e].pc = IF v.exc = "" THEN "m_publish" ELSE "done",
               ![e].status = IF v.exc = "ZulipEmailForwardError" THEN "error" ELSE "",
               ![e].outcome = IF v.exc \notin {"", "ZulipEmailForwardError"}
                              THEN v.exc ELSE "",
               ![e].error = v.msg]

\* mirror_email_message on any other address: extract_and_validate
MirrorValidate(e) ==
    /\ mail[e].pc = "idle"
    /\ ~is_missed_message_address(mail[e].rcpt_to)
    /\ MirrorValidated(e, extract_and_validate(mail[e].rcpt_to))
    /\ UNCHANGED <<settings, redis, create, queue, sent, reports, codec, call>>

\* queue_json_publish("email_mirror", ...); return {"status": "success"}
MirrorPublish(e) ==
    /\ mail[e].pc = "m_publish"
    /\ queue' = Append(queue, e)
    /\ mail' = [mail EXCEPT ![e].pc = "queued", ![e].status = "success"]
    /\ UNCHANGED <<settings, redis, create, sent, reports, codec, call>>

\* the queue worker takes the event and calls
\* process_message(message, rcpt_to=event["rcpt_to"], pre_checked=True)
Dequeue(e) ==
    /\ queue # <<>>
    /\ Head(queue) = e
    /\ mail[e].pc = "queued"
    /\ queue' = Tail(queue)
    /\ mail' = [mail EXCEPT ![e].pc = "process", ![e].pre_checked = TRUE,
                            ![e].to = Some(mail[e].rcpt_to)]
    /\ UNCHANGED <<settings, redis, create, sent, reports, codec, call>>

Caught_Nothing(exc) == FALSE

\* "except ZulipEmailForwardError": the exceptions process_message catches
Caught(exc) == exc = "ZulipEmailForwardError"

\* The end of process_message with result r of the step that ends it: the
\* message is sent, or the error is caught, logged and reported, or it
\* leaves process_message.
ProcessEnd(e, r) ==
    IF r.exc = ""
    THEN /\ sent' = [sent EXCEPT ![e] = Append(@, r.message)]
         /\ mail' = [mail EXCEPT ![e].pc = "done", ![e].outcome = "delivered"]
         /\ reports' = reports
    ELSE IF Caught(r.exc)
    THEN /\ sent' = sent
         /\ mail' = [mail EXCEPT ![e].pc = "done", ![e].outcome = "reported",
                                 ![e].error = r.msg]
         /\ log_and_report(e, r.msg)
    ELSE /\ sent' = sent
         /\ mail' = [mail EXCEPT ![e].pc = "done", ![e].outcome = r.exc]
         /\ reports' = reports

\* "if rcpt_to is not None: to = rcpt_to / else: to = find_emailgateway_recipient(message)"
ResolveRecipient(message, rcpt_to) ==
    IF rcpt_to # None
    THEN [exc |-> "", msg |-> "", to |-> rcpt_to[1]]
    ELSE find_emailgateway_recipient(message)

\* the end of the resolution: "debug_info['to'] = to", or the error caught
ProcessResolved(e, found) ==
    IF found.exc = ""
    THEN /\ mail' = [mail EXCEPT ![e].via = "direct", ![e].pc = "process",
                                 ![e].to = Some(found.to)]
         /\ reports' = reports
    ELSE /\ mail' = [mail EXCEPT ![e].via = "direct", ![e].pc = "done",
                                 ![e].outcome = "reported", ![e].error = found.msg]
         /\ log_and_report(e, found.msg)

\* a direct call process_message(message, rcpt_to) or process_message(message),
\* up to "debug_info['to'] = to"
ProcessStart(e) ==
    /\ mail[e].pc = "idle"
    /\ \/ ProcessResolved(e, ResolveRecipient(mail[e].msg, Some(mail[e].rcpt_to)))
       \/ ProcessResolved(e, ResolveRecipient(mail[e].msg, None))
    /\ UNCHANGED <<settings, redis, create, queue, sent, codec, call>>

ShouldConsume_Always(pre_checked) == TRUE

\* process_missed_message: "if not pre_checked: mark_missed_message_address_as_used(to)"
ShouldConsume(pre_checked) == ~pre_checked

\* process_missed_message with pre_checked false: the hincrby + expire pipeline
ProcessMarkUsed(e) ==
    /\ mail[e].pc = "process"
    /\ ShouldConsume(mail[e].pre_checked)
    /\ is_missed_message_address(mail[e].to[1])
    /\ redis' = [redis EXCEPT ![KeyOf(mail[e].to[1])] = MarkUsedPipeline(@)]
    /\ mail' = [mail EXCEPT ![e].decrements = @ + 1,
                            ![e].pc = AfterMarkUsed(redis'[KeyOf(mail[e].to[1])],
                                                    "p_delete", "p_send")]
    /\ UNCHANGED <<settings, create, queue, sent, reports, codec, call>>

\* new_value < 0: delete the key, raise; process_message logs and reports
ProcessDelete(e) ==
    /\ mail[e].pc = "p_delete"
    /\ redis' = [redis EXCEPT ![KeyOf(mail[e].to[1])] = MarkUsedDelete(@)]
    /\ mail' = [mail EXCEPT ![e].pc = "done", ![e].outcome = "reported",
                            ![e].error = "Missed message address has already been used"]
    /\ log_and_report(e, "Missed message address has already been used")
    /\ UNCHANGED <<settings, create, queue, sent, codec, call>>

\* "if not all(val is not None for val in result)"
MissingData(result) == \E i \in 1..Len(result) : result[i] = None

\* the internal_send_* call chosen by the kind of the stored recipient
MissedMessage(user_profile_id, recipient_id, subject, body) ==
    [NoMessage EXCEPT
        !.type = CASE RecipientType(recipient_id) = "STREAM" -> "stream"
                   [] RecipientType(recipient_id) = "PERSONAL" -> "private"
                   [] OTHER -> "huddle",
        !.recipient_id = recipient_id,
        !.sender = user_profile_id,
        !.topic = IF RecipientType(recipient_id) = "STREAM" THEN subject ELSE <<>>,
        !.content = body]

\* send_to_missed_message_address after the hmget: what it raises, or the
\* message it sends
SendResolved(result, body) ==
    IF MissingData(result)
    THEN [exc |-> "ZulipEmailForwardError", msg |-> "Missing missed message address data",
          message |-> NoMessage]
    ELSE IF body.exc # "" THEN [exc |-> body.exc, msg |-> body.msg, message |-> NoMessage]
    ELSE [exc |-> "", msg |-> "",
          message |-> MissedMessage(result[1][1], result[2][1], result[3][1], body.body)]

send_to_missed_message_address(address, message) ==
    SendResolved(HMGet(redis[KeyOf(address)]), construct_zulip_body(message))

\* process_missed_message after the consume, or with pre_checked true
ProcessSendMissed(e) ==
    /\ \/ mail[e].pc = "p_send"
       \/ /\ mail[e].pc = "process"
          /\ ~ShouldConsume(mail[e].pre_checked)
          /\ is_missed_message_address(mail[e].to[1])
    /\ ProcessEnd(e, send_to_missed_message_address(mail[e].to[1], mail[e].msg))
    /\ UNCHANGED <<settings, redis, create, queue, codec, call>>

\* Stream.objects.get(email_token=token).name
StreamName(token) == (CHOOSE st \in Streams : st.email_token = token).name

\* process_stream_message after extract_and_validate and
\* construct_zulip_body: what it raises, or the message it sends
StreamResult(v, body, subject) ==
    IF v.exc # "" THEN [exc |-> v.exc, msg |-> v.msg, message |-> NoMessage]
    ELSE IF body.exc # "" THEN [exc |-> body.exc, msg |-> body.msg, message |-> NoMessage]
    ELSE [exc |-> "", msg |-> "",
          message |-> send_zulip(StreamName(v.token), subject, body.body)]

process_stream_message(to, message) ==
    StreamResult(extract_and_validate(to), construct_zulip_body(message), Subject(message))

\* process_message on an address that is not a missed-message address
ProcessStream(e) ==
    /\ mail[e].pc = "process"
    /\ ~is_missed_message_address(mail[e].to[1])
    /\ ProcessEnd(e, process_stream_message(mail[e].to[1], mail[e].msg))
    /\ UNCHANGED <<settings, redis, create, queue, codec, call>>

----------------------------------------------------------------------------
(* Calls of the codec on their own *)

CodecIdle ==
    [pc |-> "idle", name |-> <<>>, token |-> <<>>, address |-> <<>>,
     decoded |-> [exc |-> "", stream_name |-> <<>>, token |-> <<>>]]

\* characters of stream names: 'a', 'B', '_', '/', '%', '0', U+00E9, U+2710
NameChars == {97, 66, 95, 47, 37, 48, 233, 10000}
\* characters of tokens: 'a', '7', '+', '.'
TokenChars == {97, 55, 43, 46}

CodecNames == SeqsUpTo(NameChars, MaxNameLen)
CodecTokens == SeqsUpTo(TokenChars, MaxTokenLen)

\* local parts of addresses that arrive from outside
ReceivedLocalParts ==
    { <<97, 43, 98>>,              \* a+b
      <<97, 46, 98>>,              \* a.b
      <<97, 43, 98, 46, 99>>,      \* a+b.c
      <<97, 46, 98, 43, 99>>,      \* a.b+c
      <<97, 43, 98, 43, 99>>,      \* a+b+c
      <<97, 46, 98, 46, 99>>,      \* a.b.c
      <<97, 98>>,                  \* ab
      <<37, 48, 48, 52, 55, 43, 98>>,  \* %0047+b
      <<>> }

\* what follows the local part: "@example.com", "@example.com.evil.org",
\* "@zulip.net", "@other.org", ""
ReceivedTails ==
    { <<64, 101, 120, 97, 109, 112, 108, 101, 46, 99, 111, 109>>,
      <<64, 101, 120, 97, 109, 112, 108, 101, 46, 99, 111, 109, 46, 101, 118, 105, 108, 46, 111, 114, 103>>,
      <<64, 122, 117, 108, 105, 112, 46, 110, 101, 116>>,
      <<64, 111, 116, 104, 101, 114, 46, 111, 114, 103>>,
      <<>> }

ReceivedAddresses == { l \o t : l \in ReceivedLocalParts, t \in ReceivedTails }

\* encode_email_address_helper(name, email_token)
CodecEncode ==
    /\ codec.pc = "idle"
    /\ \E name \in CodecNames, token \in CodecTokens :
          codec' = [codec EXCEPT !.pc = "encoded", !.name = name, !.token = token,
                                 !.address = encode_email_address_helper(name, token)]
    /\ UNCHANGED <<settings, redis, create, mail, queue, sent, reports, call>>

\* an address arrives from outside
CodecReceive ==
    /\ codec.pc = "idle"
    /\ \E address \in ReceivedAddresses :
          codec' = [codec EXCEPT !.pc = "received", !.address = address]
    /\ UNCHANGED <<settings, redis, create, mail, queue, sent, reports, call>>

\* decode_email_address(address)
CodecDecode ==
    /\ codec.pc \in {"encoded", "received"}
    /\ codec' = [codec EXCEPT !.pc = IF codec.pc = "encoded" THEN "round_trip" ELSE "decoded",
                              !.decoded = decode_email_address(codec.address)]
    /\ UNCHANGED <<settings, redis, create, mail, queue, sent, reports, call>>

----------------------------------------------------------------------------
(* Calls of the functions that read a message or a text, on their own *)

Result(exc, msg, value) == [exc |-> exc, msg |-> msg, value |-> value]

CallIdle ==
    [pc |-> "idle", message |-> BodylessMessage, rcpt_to |-> None, text |-> <<>>,
     result |-> Result("", "", <<>>)]

\* "someone@other.org": a recipient that is not an address of the gateway
OtherRecipient ==
    <<115, 111, 109, 101, 111, 110, 101, 64, 111, 116, 104, 101, 114, 46, 111, 114, 103>>

\* the values message.get_all(header) can give: none, one or two
\* recipients, of the gateway or not
HeaderLists ==
    { <<>>, <<OtherRecipient>>, <<StreamAddress>>, <<BadTokenAddress>>,
      <<OtherRecipient, StreamAddress>>, <<StreamAddress, BadTokenAddress>>,
      <<OtherRecipient, OtherRecipient>> }

\* messages that differ in their recipient headers
HeaderMessages ==
    { [PlainMessage(StreamAddress) EXCEPT
          !.headers = [x_gm_original_to |-> x, delivered_to |-> d, to |-> t]] :
      x \in HeaderLists, d \in HeaderLists, t \in HeaderLists }

\* the resolution of the recipient in process_message: the message arrives
\* with or without rcpt_to
CallResolve ==
    /\ call.pc = "idle"
    /\ \E message \in HeaderMessages, rcpt_to \in {None, Some(NoSeparatorAddress)} :
          call' = [call EXCEPT !.pc = "resolved", !.message = message, !.rcpt_to = rcpt_to,
                               !.result = LET r == ResolveRecipient(message, rcpt_to)
                                          IN Result(r.exc, r.msg, r.to)]
    /\ UNCHANGED <<settings, redis, create, mail, queue, sent, reports, codec>>

\* a text of n letters, no two neighbours alike
Letters(n) == [i \in 1..n |-> 97 + (i % 26)]

\* subjects and bodies around the limits of send_zulip
LongMessages ==
    { [PlainMessage(StreamAddress) EXCEPT
          !.subject = subject,
          !.parts = <<TextPart("text/plain", Letters(b))>>] :
      subject \in {None} \cup { Some(Letters(n)) : n \in {1, 59, 60, 61, 100} },
      b \in {1, 1999, 2000, 2001, 2500} }

\* process_stream_message on an email to a stream
CallProcessStream ==
    /\ call.pc = "idle"
    /\ \E message \in LongMessages, to \in {StreamAddress, BadTokenAddress} :
          call' = [call EXCEPT !.pc = "sent", !.message = message, !.rcpt_to = Some(to),
                               !.result = LET r == process_stream_message(to, message)
                                          IN Result(r.exc, r.msg, r.message)]
    /\ UNCHANGED <<settings, redis, create, mail, queue, sent, reports, codec>>

\* texts of 'a', '-', newline and space
FooterTexts == SeqsUpTo({97, 45, 10, 32}, MaxTextLen)

CallFilterFooter ==
    /\ call.pc = "idle"
    /\ \E text \in FooterTexts :
          call' = [call EXCEPT !.pc = "filtered", !.text = text,
                               !.result = Result("", "", filter_footer(text))]
    /\ UNCHANGED <<settings, redis, create, mail, queue, sent, reports, codec>>

\* a part of a multipart message: a container, a text part with or without
\* a charset parameter, an attachment
Container(depth) ==
    [content_type |-> "multipart/mixed", charset |-> None, payload |-> <<>>,
     filename |-> None, depth |-> depth, is_multipart |-> TRUE]
Attachment(filename) ==
    [content_type |-> "image/png", charset |-> None, payload |-> <<104, 105>>,
     filename |-> Some(filename), depth |-> 1, is_multipart |-> FALSE]

\* "", " ", NUL, "hi", "h" NUL "i", "hi" newline "--" newline "x", "<b>yo</b>"
Payloads ==
    { <<>>, <<32>>, <<0>>, <<104, 105>>, <<104, 0, 105>>,
      <<104, 105, 10, 45, 45, 10, 120>>, <<60, 98, 62, 121, 111, 60, 47, 98, 62>> }

TextParts(depth) ==
    { [TextPart(content_type, payload) EXCEPT !.charset = charset, !.depth = depth] :
      content_type \in {"text/plain", "text/html"},
      charset \in {None, Some("utf-8")},
      payload \in Payloads }

\* "f.png" and "a" NUL "b" (filename*=utf-8''a%00b)
Attachments == { Attachment(<<102, 46, 112, 110, 103>>), Attachment(<<97, 0, 98>>) }

\* the parts of a message in the order of message.walk(): one text part; a
\* container with one or two children; a container holding a container
\* with two text parts
PartLists ==
    { <<p>> : p \in TextParts(0) }
    \cup { <<Container(0), p>> : p \in TextParts(1) \cup Attachments }
    \cup { <<Container(0), p, q>> : p \in TextParts(1) \cup Attachments,
                                    q \in TextParts(1) \cup Attachments }
    \cup { <<Container(0), Container(1), p, q>> :
             p \in { t \in TextParts(2) : t.payload = <<104, 105>> },
             q \in { t \in TextParts(2) : t.payload = <<60, 98, 62, 121, 111, 60, 47, 98, 62>> } }

BodyMessages == { [PlainMessage(StreamAddress) EXCEPT !.parts = parts] : parts \in PartLists }

CallExtractBody ==
    /\ call.pc = "idle"
    /\ \E message \in BodyMessages :
          call' = [call EXCEPT !.pc = "extracted", !.message = message,
                               !.result = LET r == extract_body(message)
                                          IN Result(r.exc, r.msg, r.body)]
    /\ UNCHANGED <<settings, redis, create, mail, queue, sent, reports, codec>>

CallConstructBody ==
    /\ call.pc = "idle"
    /\ \E message \in BodyMessages :
          call' = [call EXCEPT !.pc = "built", !.message = message,
                               !.result = LET r == construct_zulip_body(message)
                                          IN Result(r.exc, r.msg, r.body)]
    /\ UNCHANGED <<settings, redis, create, mail, queue, sent, reports, codec>>

----------------------------------------------------------------------------
(* The gateway: calls of create_missed_message_address and inbound emails *)

NoSettings == [EMAIL_GATEWAY_EXTRA_PATTERN_HACK |-> NO_EXTRA_PATTERN]
HackSettings == [EMAIL_GATEWAY_EXTRA_PATTERN_HACK |-> EXTRA_PATTERN_HACK]

\* the recipients of the emails of the gateway
GatewayAddresses == MMAddresses \cup {StreamAddress}

\* the record of a token just after create_missed_message_address(g) returned
FreshRecord(g) == CreateStore(CreateClaimKey(NoKey), CreateData(CreateInput(g)))

\* the first token generate_random_token can draw
TokenA == [i \in 1..TOKEN_LENGTH |-> 97]

\* a token create_missed_message_address has not handed out
TokenB == [i \in 1..TOKEN_LENGTH |-> 98]

\* every kind of recipient address
AllAddresses ==
    {MMAddress(TokenA), MMAddress(TokenB), StreamAddress, BadTokenAddress,
     NoSeparatorAddress, ManyDotsAddress, ForeignAddress}

\* call 1 of create_missed_message_address has returned the address of TokenA
CreatedA ==
    /\ redis = [k \in RedisKeys |->
                  IF k = missed_message_redis_key(TokenA) THEN FreshRecord(1) ELSE NoKey]
    /\ create = [g \in CreateCalls |->
                  IF g = 1
                  THEN [pc |-> "done", token |-> Some(TokenA),
                        address |-> Some(MMAddress(TokenA))]
                  ELSE CreateIdle]

Idle(n) ==
    /\ queue = <<>>
    /\ sent = [e \in 1..n |-> <<>>]
    /\ reports = [e \in 1..n |-> <<>>]
    /\ codec = CodecIdle
    /\ call = CallIdle

Init ==
    /\ settings = NoSettings
    /\ redis = [k \in RedisKeys |-> NoKey]
    /\ create = [g \in CreateCalls |-> CreateIdle]
    /\ mail \in [1..NumEmails -> { MailIdle(a, PlainMessage(a)) : a \in GatewayAddresses }]
    /\ Idle(NumEmails)

\* NumConsumers emails sent to the address of a token just created
InitRace ==
    /\ settings = NoSettings
    /\ CreatedA
    /\ mail = [e \in 1..NumConsumers |-> MailIdle(MMAddress(TokenA), PlainMessage(MMAddress(TokenA)))]
    /\ Idle(NumConsumers)

\* the elements of a set, one after the other
RECURSIVE Listed(_)
Listed(S) ==
    IF S = {} THEN <<>>
    ELSE LET x == CHOOSE x \in S : TRUE IN <<x>> \o Listed(S \ {x})

\* the emails that can arrive: to every kind of address, with and without a body
InboundKinds ==
    Listed({ MailIdle(a, PlainMessage(a)) : a \in AllAddresses }
           \cup { MailIdle(a, BodylessMessage) : a \in AllAddresses })

\* the ways to pick n of k kinds, numbered in the order of the kinds: the
\* handling of an email does not depend on its number
InOrder(n, k) == { f \in [1..n -> 1..k] : \A e \in 1..(n - 1) : f[e] <= f[e + 1] }

\* the addresses of the stream flow
StreamFlowAddresses ==
    {StreamAddress, OtherCaseAddress, OtherNameAddress, BadTokenAddress, DotAddress}

\* the emails of the stream flow, with and without a body
StreamKinds ==
    Listed({ MailIdle(a, PlainMessage(a)) : a \in StreamFlowAddresses }
           \cup { MailIdle(a, BodylessMessage) : a \in StreamFlowAddresses })

\* emails to stream addresses
InitStream ==
    /\ settings = NoSettings
    /\ redis = [k \in RedisKeys |-> NoKey]
    /\ create = [g \in CreateCalls |-> CreateIdle]
    /\ \E kind \in InOrder(NumEmails, Len(StreamKinds)) :
          mail = [e \in 1..NumEmails |-> StreamKinds[kind[e]]]
    /\ Idle(NumEmails)

\* emails to every kind of address, with and without a body, under both settings
InitDispatch ==
    /\ settings \in {NoSettings, HackSettings}
    /\ CreatedA
    /\ \E kind \in InOrder(NumEmails, Len(InboundKinds)) :
          mail = [e \in 1..NumEmails |-> InboundKinds[kind[e]]]
    /\ Idle(NumEmails)

\* emails to the address of a token that create_missed_message_address may
\* hand out before, between or after them
InitStore ==
    /\ settings = NoSettings
    /\ redis = [k \in RedisKeys |-> NoKey]
    /\ create = [g \in CreateCalls |-> CreateIdle]
    /\ mail = [e \in 1..NumEmails |-> MailIdle(MMAddress(TokenA), PlainMessage(MMAddress(TokenA)))]
    /\ Idle(NumEmails)

InitCodec ==
    /\ settings \in {NoSettings, HackSettings}
    /\ redis = [k \in RedisKeys |-> NoKey]
    /\ create = [g \in CreateCalls |-> CreateIdle]
    /\ mail = [e \in 1..NumEmails |-> MailIdle(StreamAddress, PlainMessage(StreamAddress))]
    /\ Idle(NumEmails)

NextCreate ==
    \/ \E g \in CreateCalls : CreateHsetnx(g)
    \/ \E g \in CreateCalls : CreatePipeline(g)

\* two calls of create_missed_message_address, which may draw the same token
NextCreatePair ==
    \/ \E g \in CreateCalls \cap {1, 2} : CreateHsetnx(g)
    \/ \E g \in CreateCalls \cap {1, 2} : CreatePipeline(g)

NextMissed(n) ==
    \/ \E e \in 1..n : MirrorMarkUsed(e)
    \/ \E e \in 1..n : MirrorDelete(e)
    \/ \E e \in 1..n : MirrorPublish(e)
    \/ \E e \in 1..n : Dequeue(e)
    \/ \E e \in 1..n : ProcessStart(e)
    \/ \E e \in 1..n : ProcessMarkUsed(e)
    \/ \E e \in 1..n : ProcessDelete(e)
    \/ \E e \in 1..n : ProcessSendMissed(e)

NextStream(n) ==
    \/ \E e \in 1..n : MirrorValidate(e)
    \/ \E e \in 1..n : ProcessStream(e)

\* mirror_email_message and process_message on stream addresses
NextStreamFlow(n) ==
    \/ \E e \in 1..n : MirrorValidate(e)
    \/ \E e \in 1..n : MirrorPublish(e)
    \/ \E e \in 1..n : Dequeue(e)
    \/ \E e \in 1..n : ProcessStart(e)
    \/ \E e \in 1..n : ProcessStream(e)

NextCodec == CodecEncode \/ CodecReceive \/ CodecDecode

NextCall ==
    \/ CallResolve
    \/ CallProcessStream
    \/ CallFilterFooter
    \/ CallExtractBody
    \/ CallConstructBody

Next == NextCreate \/ NextMissed(NumEmails) \/ NextStream(NumEmails)

\* the gateway: addresses are created while emails arrive
Spec == Init /\ [][Next]_vars

\* consumers racing on one fresh address
SpecRace == InitRace /\ [][NextMissed(NumConsumers)]_vars

\* the dispatch of emails to every kind of address
SpecDispatch == InitDispatch /\ [][NextMissed(NumEmails) \/ NextStream(NumEmails)]_vars

\* generate, consume and resolve on the records of the token store
SpecStore == InitStore /\ [][NextCreatePair \/ NextMissed(NumEmails)]_vars

\* the stream flow
SpecStream == InitStream /\ [][NextStreamFlow(NumEmails)]_vars

\* the codec on its own
SpecCodec == InitCodec /\ [][NextCodec]_vars

\* the functions that read a message or a text, on their own
SpecCall == InitCodec /\ [][NextCall]_vars

----------------------------------------------------------------------------
(* Properties of the token store *)

ALREADY_USED == "Missed message address has already been used"
MISSING_DATA == "Missing missed message address data"

\* the emails on whose behalf mark_missed_message_address_as_used was called
Consumers == { e \in DOMAIN mail : mail[e].decrements > 0 }
\* the calls that have returned or raised
Returned == { e \in Consumers : mail[e].pc \notin {"m_delete", "p_delete"} }
\* the calls that raised 'Missed message address has already been used'
Exhausted == { e \in Returned : mail[e].error = ALREADY_USED }
Succeeded == Returned \ Exhausted

KeyA == missed_message_redis_key(TokenA)

\* C1 as stated: once N >= 1 racing calls on the fresh address have all
\* returned, exactly one succeeded, N-1 raised 'already been used', and the
\* record is absent.
C1_RecordAbsentAfterRace ==
    (Consumers # {} /\ Returned = Consumers) =>
        /\ Cardinality(Succeeded) = 1
        /\ Cardinality(Exhausted) = Cardinality(Consumers) - 1
        /\ redis[KeyA] = NoKey

\* C1 (amended): once N >= 1 racing calls of
\* mark_missed_message_address_as_used on the fresh address have all
\* returned, exactly one succeeded and N-1 raised 'already been used'; the
\* record is absent when N >= 2, and for N = 1 it is still there with
\* uses_left = 0.
C1_ExactlyOneConsumerSucceeds ==
    (Consumers # {} /\ Returned = Consumers) =>
        /\ Cardinality(Succeeded) = 1
        /\ Cardinality(Exhausted) = Cardinality(Consumers) - 1
        /\ Cardinality(Consumers) >= 2 => redis[KeyA] = NoKey
        /\ Cardinality(Consumers) = 1 =>
              redis[KeyA] = [FreshRecord(1) EXCEPT !.uses_left = Some(0)]

\* three calls raced and all have returned
C1_Witness ==
    /\ Cardinality(Consumers) >= 3
    /\ Returned = Consumers
    /\ Cardinality(Exhausted) >= 2
    /\ redis[KeyA] = NoKey

\* uses_left as hincrby reads it: a missing field counts as 0
UsesLeft(h) == IF h.uses_left = None THEN 0 ELSE h.uses_left[1]

\* a record after one decrement of uses_left and a refresh of its TTL
Decremented(h) ==
    [h EXCEPT !.uses_left = Some(UsesLeft(h) - 1), !.ttl = Some(MISSED_MESSAGE_TTL)]

\* email e takes a step
Steps(e) == mail'[e] # mail[e]

\* email e takes a step of mirror_email_message
MirrorSteps(e) ==
    /\ Steps(e)
    /\ mail[e].pc \in {"idle", "m_delete", "m_publish"}
    /\ mail'[e].via = "mirror"

\* email e runs the hincrby + expire pipeline
ConsumeSteps(e) == mail'[e].decrements = mail[e].decrements + 1

\* C2: every step process_message takes with pre_checked=True leaves the
\* token store unchanged, so an email accepted by mirror_email_message and
\* then processed has decremented uses_left exactly once in total; with
\* pre_checked=False process_message decrements once, by one, before it
\* resolves the record.
C2_TwoPhaseDecrementsOnce ==
    [][\A e \in DOMAIN mail :
          /\ (mail[e].pre_checked /\ Steps(e)) => redis' = redis
          /\ (mail'[e].pre_checked /\ is_missed_message_address(mail[e].rcpt_to)) =>
                mail'[e].decrements = 1
          /\ ConsumeSteps(e) =>
                LET key == KeyOf(mail[e].rcpt_to) IN
                /\ redis'[key].uses_left = Some(UsesLeft(redis[key]) - 1)
                /\ \A k \in RedisKeys \ {key} : redis'[k] = redis[k]
          /\ (mail[e].via = "direct" /\ mail'[e].pc = "p_send" /\ Steps(e)) =>
                mail'[e].decrements = 1
          /\ (mail[e].pc = "p_send" /\ Steps(e)) =>
                (mail'[e].decrements = 1 /\ redis' = redis)
      ]_vars

\* an email accepted by mirror_email_message has been delivered by the
\* deferred process_message, and the record it used stands at uses_left = 0
C2_Witness ==
    \E e \in DOMAIN mail :
       /\ mail[e].via = "mirror"
       /\ mail[e].pre_checked
       /\ mail[e].outcome = "delivered"
       /\ mail[e].decrements = 1
       /\ is_missed_message_address(mail[e].rcpt_to)
       /\ redis[KeyOf(mail[e].rcpt_to)].uses_left = Some(0)

\* C3 as stated: no step of mirror_email_message changes the token store,
\* whatever the recipient address and whether it accepts or rejects.
C3_MirrorLeavesStoreUnchanged ==
    [][\A e \in DOMAIN mail : MirrorSteps(e) => redis' = redis]_vars

\* C3 (amended): mirror_email_message leaves the token store unchanged
\* only for an address that is not a missed-message address. For a
\* missed-message address it decrements uses_left of the record by one and
\* refreshes its TTL, and deletes the record when the result is negative;
\* it enqueues the email exactly when it accepts.
C3_MirrorConsumesMissedMessageToken ==
    [][\A e \in DOMAIN mail : MirrorSteps(e) =>
          LET key == KeyOf(mail[e].rcpt_to) IN
          /\ ~is_missed_message_address(mail[e].rcpt_to) => redis' = redis
          /\ (is_missed_message_address(mail[e].rcpt_to) /\ mail[e].pc = "idle") =>
                /\ redis' = [redis EXCEPT ![key] = Decremented(@)]
                /\ queue' = queue
                /\ mail'[e].pc = IF UsesLeft(redis[key]) < 1 THEN "m_delete" ELSE "m_publish"
          /\ mail[e].pc = "m_delete" =>
                /\ redis' = [redis EXCEPT ![key] = NoKey]
                /\ queue' = queue
                /\ mail'[e].status = "error"
          /\ mail[e].pc = "m_publish" =>
                /\ redis' = redis
                /\ queue' = Append(queue, e)
                /\ mail'[e].status = "success"
          /\ mail'[e].status = "success" <=> queue' # queue
      ]_vars

\* mirror_email_message has accepted one email to a missed-message address
\* and rejected another, and the record is gone
C3_Witness ==
    \E e1, e2 \in DOMAIN mail :
       /\ mail[e1].via = "mirror" /\ mail[e1].status = "success"
       /\ mail[e2].via = "mirror" /\ mail[e2].status = "error"
       /\ mail[e2].error = ALREADY_USED
       /\ mail[e1].rcpt_to = mail[e2].rcpt_to
       /\ redis[KeyOf(mail[e1].rcpt_to)] = NoKey

\* the emails delivered through the address of a token
Delivered(token) ==
    { e \in DOMAIN mail : mail[e].outcome = "delivered" /\ mail[e].to = Some(MMAddress(token)) }

\* the calls of create_missed_message_address that claimed a token
CreatedFor(token) == { g \in CreateCalls : create[g].token = Some(token) }

\* the emails to the address of a token that were turned down
Refused(token) ==
    { e \in DOMAIN mail : /\ mail[e].rcpt_to = MMAddress(token)
                          /\ mail[e].pc = "done"
                          /\ mail[e].outcome # "delivered" }

\* C4: a token never delivers more emails than the number of times
\* create_missed_message_address handed it out; for a token generated once,
\* at most one email is delivered through its address, in every
\* interleaving of mirror_email_message, the deferred process_message and
\* direct process_message calls.
C4_SingleUseEndToEnd ==
    \A token \in RandomTokens :
       /\ Cardinality(Delivered(token)) <= Cardinality(CreatedFor(token))
       /\ Cardinality(CreatedFor(token)) = 1 => Cardinality(Delivered(token)) <= 1

\* two emails went to the address of a token generated once: one was
\* delivered, the other turned down
C4_Witness ==
    \E token \in RandomTokens :
       /\ Cardinality(CreatedFor(token)) = 1
       /\ Cardinality(Delivered(token)) = 1
       /\ Refused(token) # {}

\* process_message has run to its end on email e
Processed(e) ==
    /\ mail[e].pc = "done"
    /\ mail[e].via = "direct" \/ mail[e].pre_checked

\* C5: no error leaves process_message: it ends with the message delivered,
\* or with the failure logged and reported, whatever the recipient address
\* and the message.
C5_NoErrorEscapesProcessMessage ==
    \A e \in DOMAIN mail : Processed(e) => mail[e].outcome \in {"delivered", "reported"}

\* email e runs the delete that follows a negative uses_left
DeleteSteps(e) == Steps(e) /\ mail[e].pc \in {"m_delete", "p_delete"}

\* email e runs send_to_missed_message_address
ResolveSteps(e) ==
    /\ Steps(e)
    /\ mail'[e].pc = "done"
    /\ \/ mail[e].pc = "p_send"
       \/ mail[e].pc = "process" /\ mail[e].pre_checked
             /\ is_missed_message_address(mail[e].rcpt_to)

\* C6: a consume that finds uses_left = 1 succeeds and leaves the stored
\* fields of the record as they were; a consume that finds uses_left = 0
\* raises 'already been used' and deletes the record; a resolve of a record
\* with any of user_profile_id, recipient_id, subject absent raises
\* 'Missing missed message address data' and sends nothing, and a resolve
\* of a complete record addresses the message with the stored fields.
C6_ConsumeThenResolve ==
    [][\A e \in DOMAIN mail :
          LET key == KeyOf(mail[e].rcpt_to) IN
          /\ (ConsumeSteps(e) /\ redis[key].uses_left = Some(1)) =>
                /\ mail'[e].pc \in {"m_publish", "p_send"}
                /\ HMGet(redis'[key]) = HMGet(redis[key])
                /\ redis'[key].uses_left = Some(0)
          /\ (ConsumeSteps(e) /\ UsesLeft(redis[key]) <= 0) =>
                mail'[e].pc \in {"m_delete", "p_delete"}
          /\ DeleteSteps(e) =>
                /\ redis'[key] = NoKey
                /\ mail'[e].error = ALREADY_USED
                /\ sent' = sent
          /\ (ResolveSteps(e) /\ (\E f \in {"user_profile_id", "recipient_id", "subject"} :
                                     redis[key][f] = None)) =>
                /\ mail'[e].outcome = "reported"
                /\ reports'[e] = Append(reports[e], MISSING_DATA)
                /\ sent' = sent
          /\ (ResolveSteps(e) /\ (\A f \in {"user_profile_id", "recipient_id", "subject"} :
                                     redis[key][f] # None)) =>
                /\ mail'[e].outcome = "delivered"
                /\ sent'[e] = Append(sent[e], Last(sent'[e]))
                /\ Last(sent'[e]).sender = redis[key].user_profile_id[1]
                /\ Last(sent'[e]).recipient_id = redis[key].recipient_id[1]
      ]_vars

\* the first consume succeeded, a second one found the token used and
\* deleted the record, and the resolve that followed found no data
C6_Witness ==
    \E e1, e2 \in DOMAIN mail :
       /\ mail[e1].rcpt_to = mail[e2].rcpt_to
       /\ mail[e1].decrements = 1
       /\ mail[e1].outcome = "reported"
       /\ mail[e1].error = MISSING_DATA
       /\ mail[e2].pc = "done"
       /\ mail[e2].error = ALREADY_USED
       /\ redis[KeyOf(mail[e1].rcpt_to)] = NoKey

\* call g of create_missed_message_address runs its hmset + expire pipeline
\* and returns
StoreSteps(g) == create[g].pc = "pipeline" /\ create'[g].pc = "done"

\* call g of create_missed_message_address has its hsetnx answered 1
ClaimSteps(g) == create[g].pc # "pipeline" /\ create'[g].pc = "pipeline"

\* C7: create_missed_message_address never overwrites the fields of a
\* record that exists; a call never claims the token another call has
\* claimed and not yet returned, so concurrent calls return distinct
\* addresses; and when a call returns, the record of its address holds the
\* call's own user_profile_id, recipient_id and subject with uses_left = 1,
\* whatever consumers do meanwhile.
C7_CreateNeverOverwrites ==
    [][\A g \in CreateCalls :
          /\ StoreSteps(g) =>
                LET key == missed_message_redis_key(create[g].token[1]) IN
                /\ redis[key].user_profile_id = None
                /\ redis[key].recipient_id = None
                /\ redis[key].subject = None
                /\ redis'[key] = FreshRecord(g)
                /\ create'[g].address = Some(MMAddress(create[g].token[1]))
          /\ ClaimSteps(g) =>
                \A g2 \in CreateCalls \ {g} :
                   create[g2].pc = "pipeline" => create'[g].token # create[g2].token
      ]_vars

\* the local part of a well-formed address: what stands before the
\* template's suffix
LocalPart(address) == SubSeq(address, 1, Len(address) - Len(TemplateParts[2]))

\* C8: decode_email_address(encode_email_address_helper(name, token)) is
\* (name, token) for every stream name, whatever the code points of its
\* characters, and every token.
C8_CodecRoundTrip ==
    codec.pc = "round_trip" =>
        codec.decoded = [exc |-> "", stream_name |-> codec.name, token |-> codec.token]

\* the position of the first '+' or '.' of s, 0 when it holds neither
FirstSeparator(s) ==
    IF \E i \in 1..Len(s) : s[i] \in {43, 46}
    THEN CHOOSE i \in 1..Len(s) : s[i] \in {43, 46} /\ \A j \in 1..(i - 1) : s[j] \notin {43, 46}
    ELSE 0

\* what a split of the local part at its first '+' or '.' gives
SplitAtFirstSeparator(s) ==
    IF FirstSeparator(s) = 0
    THEN [exc |-> "MalformedAddress", stream_name |-> <<>>, token |-> <<>>]
    ELSE [exc |-> "",
          stream_name |-> UnescapeName(SubSeq(s, 1, FirstSeparator(s) - 1)),
          token |-> SubSeq(s, FirstSeparator(s) + 1, Len(s))]

\* the address is exactly the template with a local part in place of %s
\* (or, with the extra pattern configured, ends with a match of it)
MatchesTemplateExactly(address) ==
    /\ StartsWithAt(address, 1, TemplateParts[1])
    /\ \E suf \in LastPartMatches :
          /\ Len(address) >= Len(TemplateParts[1]) + Len(suf)
          /\ SubSeq(address, Len(address) - Len(suf) + 1, Len(address)) = suf

\* C9: decode_email_address splits the local part of an address of the
\* gateway at the first '+' or '.', whichever comes first: the name is what
\* stands before it, the token all that follows ('a+b.c' gives name 'a',
\* token 'b.c'); a local part with neither fails as a malformed address.
C9_SplitsAtFirstSeparator ==
    (codec.pc = "decoded" /\ settings = NoSettings
        /\ codec.address = FormatPattern(LocalPart(codec.address))) =>
            codec.decoded = SplitAtFirstSeparator(LocalPart(codec.address))

\* C10: decode_email_address raises ZulipEmailUnrecognizedAddressError
\* exactly on the addresses that are not the template with a local part in
\* place of %s, an address with more characters after the template's domain
\* included; with the extra pattern configured an address ending in a match
\* of that pattern is accepted.
C10_RejectsAddressesOffTemplate ==
    codec.pc = "decoded" =>
        (codec.decoded.exc = "ZulipEmailUnrecognizedAddressError"
            <=> ~MatchesTemplateExactly(codec.address))

\* the values of the three recipient headers, in priority order
AllRecipients(message) ==
    message.headers.x_gm_original_to \o message.headers.delivered_to \o message.headers.to

\* C11: with rcpt_to supplied process_message takes it as the recipient and
\* reads no header; without it the recipient is the first value of
\* X-Gm-Original-To, Delivered-To, To, in that order, that matches the
\* gateway pattern, and 'Missing recipient in mirror email' is raised only
\* if no value of any of the three headers matches.
C11_FirstMatchingRecipient ==
    call.pc = "resolved" =>
        IF call.rcpt_to # None
        THEN call.result = Result("", "", call.rcpt_to[1])
        ELSE IF SelectSeq(AllRecipients(call.message), MatchesGatewayPattern) = <<>>
        THEN call.result = Result("ZulipEmailForwardError",
                                  "Missing recipient in mirror email", <<>>)
        ELSE call.result =
                Result("", "", SelectSeq(AllRecipients(call.message), MatchesGatewayPattern)[1])

BAD_STREAM_TOKEN == "Bad stream token from email recipient"

\* the streams an address names: those with the token of the address and,
\* ignoring case, its stream name
StreamsNamed(address) ==
    { st \in Streams :
         /\ st.email_token = decode_email_address(address).token
         /\ Lower(st.name) = Lower(decode_email_address(address).stream_name) }

\* C12: an email to an address that decodes is delivered into a stream only
\* if that stream has the token of the address and, ignoring case, its
\* name; when no stream has both, process_stream_message raises 'Bad
\* stream token', nothing is delivered, and mirror_email_message returns the
\* error status and enqueues nothing.
C12_StreamFlowAuthorised ==
    \A e \in DOMAIN mail :
       decode_email_address(mail[e].rcpt_to).exc = "" =>
          /\ \A i \in 1..Len(sent[e]) :
                /\ sent[e][i].type = "stream"
                /\ \E st \in StreamsNamed(mail[e].rcpt_to) : sent[e][i].stream = st.name
          /\ StreamsNamed(mail[e].rcpt_to) = {} =>
                /\ sent[e] = <<>>
                /\ mail[e].pc \notin {"m_publish", "queued"}
                /\ ~mail[e].pre_checked
                /\ \A i \in 1..Len(queue) : queue[i] # e
                /\ (mail[e].via = "mirror" /\ mail[e].pc = "done") => mail[e].status = "error"
                /\ (Processed(e) /\ mail[e].to # None) =>
                      /\ mail[e].outcome = "reported"
                      /\ mail[e].error = BAD_STREAM_TOKEN
                      /\ reports[e] = <<BAD_STREAM_TOKEN>>

\* an email addressed with the name in another case was delivered into
\* Denmark, and one with the token of Denmark under another name was
\* refused
C12_Witness ==
    \E e1, e2 \in DOMAIN mail :
       /\ mail[e1].rcpt_to = OtherCaseAddress
       /\ Len(sent[e1]) = 1
       /\ sent[e1][1].stream = <<68, 101, 110, 109, 97, 114, 107>>
       /\ mail[e2].rcpt_to = OtherNameAddress
       /\ mail[e2].pc = "done"
       /\ mail[e2].error = BAD_STREAM_TOKEN

NO_BODY == "Unable to find plaintext or HTML message body"

\* process_message ends for email e in this step
ProcessEnds(e) ==
    /\ mail[e].pc # "done"
    /\ mail'[e].pc = "done"
    /\ mail'[e].via = "direct" \/ mail'[e].pre_checked

\* C13: a ZulipEmailForwardError raised at any step of process_message
\* never leaves it: process_message then ends with nothing delivered for
\* the email, the error given to log_and_report exactly once, and the email
\* not in the queue; once process_message has ended no step is taken for
\* that email again.
C13_FailureBoundary ==
    [][\A e \in DOMAIN mail :
          /\ ProcessEnds(e) =>
                /\ mail'[e].outcome # "ZulipEmailForwardError"
                /\ mail'[e].outcome # "delivered" =>
                      /\ sent'[e] = <<>>
                      /\ \A i \in 1..Len(queue') : queue'[i] # e
                /\ mail'[e].outcome = "reported" =>
                      /\ mail'[e].error # ""
                      /\ reports'[e] = <<mail'[e].error>>
                /\ mail'[e].outcome = "delivered" =>
                      (Len(sent'[e]) = 1 /\ reports'[e] = <<>>)
          /\ mail[e].pc = "done" =>
                /\ mail'[e] = mail[e]
                /\ sent'[e] = sent[e]
                /\ reports'[e] = reports[e]
                /\ \A i \in 1..Len(queue') : queue'[i] # e
      ]_vars

\* one email was refused for want of a body and another because its
\* address had been used, each reported once with nothing delivered
C13_Witness ==
    \E e1, e2 \in DOMAIN mail :
       /\ Processed(e1) /\ mail[e1].outcome = "reported"
       /\ reports[e1] = <<NO_BODY>> /\ sent[e1] = <<>>
       /\ Processed(e2) /\ mail[e2].outcome = "reported"
       /\ reports[e2] = <<ALREADY_USED>> /\ sent[e2] = <<>>

\* s is the first n characters of t, or all of t when t has no more than n
IsPrefixOfLength(s, t, n) ==
    /\ Len(s) = (IF Len(t) <= n THEN Len(t) ELSE n)
    /\ \A i \in 1..Len(s) : s[i] = t[i]

\* C14: every message process_stream_message sends has as its topic the
\* first 60 characters of the subject and as its content the first 2000
\* characters of the assembled body: shorter ones are sent whole, longer
\* ones are cut at exactly 60 and 2000 characters.
C14_TopicAndContentTruncated ==
    (call.pc = "sent" /\ call.result.exc = "") =>
        /\ call.result.value.type = "stream"
        /\ IsPrefixOfLength(call.result.value.topic, Subject(call.message), 60)
        /\ IsPrefixOfLength(call.result.value.content,
                            construct_zulip_body(call.message).body, 2000)
        /\ Len(Subject(call.message)) <= 60 =>
              call.result.value.topic = Subject(call.message)
        /\ Len(construct_zulip_body(call.message).body) <= 2000 =>
              call.result.value.content = construct_zulip_body(call.message).body

\* a subject of 61 characters and a body of 2001 were sent as 60 and 2000
C14_Witness ==
    /\ call.pc = "sent" /\ call.result.exc = ""
    /\ Len(Subject(call.message)) = 61
    /\ Len(construct_zulip_body(call.message).body) = 2001
    /\ Len(call.result.value.topic) = 60
    /\ Len(call.result.value.content) = 2000

\* the numbers of the lines whose trimmed form starts with "--"
FooterLines(lines) ==
    { i \in 1..Len(lines) : StartsWithAt(Strip(lines[i]), 1, <<45, 45>>) }

\* everything strictly before line i, trimmed
BeforeLine(lines, i) == Strip(Join(SubSeq(lines, 1, i - 1), <<10>>))

\* C15: filter_footer changes the text exactly when exactly one line's
\* trimmed form starts with "--": it then returns everything strictly
\* before that line, trimmed, also when that text has "--" in the middle of
\* a line; with no such line or with several it returns the text unchanged.
C15_FilterFooterCutsAtFooterLine ==
    call.pc = "filtered" =>
        IF Cardinality(FooterLines(Split(call.text, <<10>>))) = 1
        THEN /\ call.result.value # call.text
             /\ call.result.value =
                   BeforeLine(Split(call.text, <<10>>),
                              CHOOSE i \in FooterLines(Split(call.text, <<10>>)) : TRUE)
        ELSE call.result.value = call.text

\* C16: whenever extract_body succeeds, what construct_zulip_body returns
\* is never empty and holds no null byte: it is the assembled text, or
\* "(No email body)" when that text is empty.
C16_BodyNeverEmptyNorNull ==
    (call.pc = "built" /\ call.result.exc = "") =>
        /\ call.result.value # <<>>
        /\ ~Contains(call.result.value, 0)

\* the parts of the given content type, in walk order
PartsOfType(message, content_type) ==
    SelectSeq(message.parts, LAMBDA p : p.content_type = content_type)

\* C18: with a text/plain part in the message the body is the first
\* text/plain part, in walk order, with its quotations removed, whether or
\* not there is a text/html part; the first text/html part is used only
\* when there is no text/plain part; extract_body raises only when the
\* message has neither.
C18_PlaintextPreferred ==
    call.pc = "extracted" =>
        IF PartsOfType(call.message, "text/plain") # <<>>
        THEN /\ call.result.exc = ""
             /\ call.result.value =
                   extract_from_plain(PartsOfType(call.message, "text/plain")[1].payload)
        ELSE IF PartsOfType(call.message, "text/html") # <<>>
        THEN /\ call.result.exc = ""
             /\ call.result.value =
                   convert_html_to_markdown(extract_from_html(
                       PartsOfType(call.message, "text/html")[1].payload))
        ELSE call.result.exc = "ZulipEmailForwardError"

\* the emails inside mark_missed_message_address_as_used that have seen a
\* negative uses_left under the key and have yet to delete it
Deleting(m, key) ==
    { e \in DOMAIN m : m[e].pc \in {"m_delete", "p_delete"} /\ KeyOf(m[e].rcpt_to) = key }

\* C17: no step of generate, consume or resolve increases the uses_left a
\* record has: a step leaves it as it is, lowers it, or removes the record;
\* where a record had no uses_left the value it gets is at most 1; resolve
\* leaves the store as it is; a record with a negative uses_left is there
\* only while the consume that saw the negative value has yet to return,
\* and that consume deletes the record before it returns.
C17_UsesLeftNeverIncreases ==
    [][/\ \A k \in RedisKeys :
             /\ (redis[k].uses_left # None /\ redis'[k].uses_left # None) =>
                   redis'[k].uses_left[1] <= redis[k].uses_left[1]
             /\ (redis[k].uses_left = None /\ redis'[k].uses_left # None) =>
                   redis'[k].uses_left[1] \in {1, -1}
             /\ UsesLeft(redis'[k]) < 0 => Deleting(mail', k) # {}
       /\ \A e \in DOMAIN mail :
             /\ ResolveSteps(e) => redis' = redis
             /\ DeleteSteps(e) => redis'[KeyOf(mail[e].rcpt_to)] = NoKey
             /\ (ConsumeSteps(e) /\ UsesLeft(redis'[KeyOf(mail[e].rcpt_to)]) < 0) =>
                   mail'[e].pc \in {"m_delete", "p_delete"}
      ]_vars

\* a record was created, used, used again and deleted, and the token was
\* handed out a second time
C17_Witness ==
    \E e1, e2 \in DOMAIN mail, g \in CreateCalls :
       /\ mail[e1].decrements = 1 /\ mail[e1].error = ""
       /\ mail[e2].pc = "done" /\ mail[e2].error = ALREADY_USED
       /\ create[g].pc = "done" /\ create[g].token = Some(TokenA)
       /\ redis[KeyA] # NoKey /\ UsesLeft(redis[KeyA]) = 1

\* C19: an email to a missed-message address for which
\* mirror_email_message returned the status 'success' is delivered by its
\* deferred process_message, whatever other emails to the same address do
\* in between.
C19_AcceptedImpliesDelivered ==
    \A e \in DOMAIN mail :
       (/\ mail[e].via = "mirror"
        /\ mail[e].status = "success"
        /\ is_missed_message_address(mail[e].rcpt_to)
        /\ Processed(e)) => (mail[e].outcome = "delivered" /\ Len(sent[e]) = 1)

\* the record hincrby + expire leave under a key that had none
ImplicitRecord == [NoKey EXCEPT !.uses_left = Some(-1), !.ttl = Some(MISSED_MESSAGE_TTL)]

\* C20: mark_missed_message_address_as_used on an address whose token has
\* no record always raises 'Missed message address has already been used':
\* its decrement creates a record with uses_left = -1 and no data fields,
\* the call deletes it before it raises, so that no record is left when it
\* has returned, and nothing is delivered for the email.
C20_ConsumeOfAbsentRecordFails ==
    [][\A e \in DOMAIN mail :
          LET key == KeyOf(mail[e].rcpt_to) IN
          /\ (ConsumeSteps(e) /\ redis[key] = NoKey) =>
                /\ redis'[key] = ImplicitRecord
                /\ mail'[e].pc \in {"m_delete", "p_delete"}
          /\ DeleteSteps(e) =>
                /\ redis'[key] = NoKey
                /\ mail'[e].pc = "done"
                /\ mail'[e].error = ALREADY_USED
                /\ mail'[e].outcome # "delivered"
                /\ mail'[e].via = "mirror" => (mail'[e].status = "error" /\ queue' = queue)
                /\ sent' = sent
          /\ (ResolveSteps(e) /\ HMGet(redis[key]) = HMGet(ImplicitRecord)) =>
                (mail'[e].outcome # "delivered" /\ sent' = sent)
          /\ (mail[e].pc = "done" /\ mail[e].error = ALREADY_USED) =>
                (mail'[e] = mail[e] /\ sent'[e] = <<>>)
      ]_vars

\* a consume found no record, the record it created is in the store, and
\* another consume has deleted the record before it and raised
C20_Witness ==
    \E e1, e2 \in DOMAIN mail :
       /\ mail[e1].pc \in {"m_delete", "p_delete"}
       /\ redis[KeyOf(mail[e1].rcpt_to)] = ImplicitRecord
       /\ mail[e2].rcpt_to = mail[e1].rcpt_to
       /\ mail[e2].pc = "done" /\ mail[e2].error = ALREADY_USED

====
